---- MODULE Spec2Model ----
(***************************************************************************)
(* Model of matrix_compressor (sources/matrix_compressor.cpp): the dense   *)
(* to sparse scan, the two codec adapters and the four facade operations   *)
(* BlazeCompressor::Compress / Decompress for vectors and matrices.        *)
(*                                                                         *)
(* Every facade call is one atomic action.  The outcome of each call of    *)
(* the external codecs (a zero or a positive byte count) is an input of    *)
(* the action, as is the outcome of undefined behaviour.                   *)
(***************************************************************************)
EXTENDS Integers, Sequences, FiniteSets, TLC

VARIABLES
    op,         \* the facade operation performed last
    vector,     \* the dense vector given to Compress(vector)
    matrix,     \* the dense matrix given to Compress(matrix)
    precision,  \* the precision given to Compress
    tamper,     \* what was done to the archive before Decompress
    archV,      \* the ArchivedVector produced by Compress / given to Decompress
    archM,      \* the ArchivedMatrix produced by Compress / given to Decompress
    indexes,    \* the index sequence handed to CompressIndexes
    values,     \* the value sequence handed to CompressValues
    status,     \* how the call ended: ok, invalid_argument, runtime_error, crash
    returned,   \* whether the call returned a value to its caller
    vout,       \* the dense vector returned by Decompress(ArchivedVector)
    mout,       \* the dense matrix returned by Decompress(ArchivedMatrix)
    calls       \* the codec library calls of the operation, in order

vars == <<op, vector, matrix, precision, tamper, archV, archM, indexes, values,
          status, returned, vout, mout, calls>>

----------------------------------------------------------------------------
(* Bounds of the model. *)

\* longest dense vector
MaxLen == 3
\* rows and columns of the matrices that are enumerated cell by cell
MaxDim == 2
\* most cells of a matrix that hold something else than +0.0
MaxCells == 2

\* A matrix too large for 32-bit linear offsets: BigRows * BigCols > 2^32.
TwoPow16 == 2^16
BigCols == TwoPow16
BigRows == TwoPow16 + 1

----------------------------------------------------------------------------
(* float: four bit patterns.  +0.0 and -0.0 are different bit patterns that *)
(* compare equal to 0; 1.5 needs one more mantissa bit than 1.0.            *)

PosZero == "+0.0"
NegZero == "-0.0"
Floats == {PosZero, NegZero, "1.0", "1.5"}

\* `x != 0` on a float
NotEqualZero(x) == x \notin {PosZero, NegZero}

\* precision 0 asks fpzip for full precision; 16 keeps 16 of the 32 bits
Precisions == {0, 16}

----------------------------------------------------------------------------
(* Dense containers.  A vector is the sequence of its elements (element i   *)
(* of the code is element i + 1 of the sequence).  A matrix is its two      *)
(* dimensions and the cells that do not hold +0.0, by <<row, column>>: the  *)
(* cells left out hold +0.0.                                                *)

Vectors == UNION {[1..n -> Floats] : n \in 0..MaxLen}

At(m, i, j) == IF <<i, j>> \in DOMAIN m.cells THEN m.cells[<<i, j>>] ELSE PosZero

NoMatrix == [rows |-> 0, cols |-> 0, cells |-> <<>>]

MatricesOver(R, C, P) ==
    UNION {{[rows |-> R, cols |-> C, cells |-> f] : f \in [S -> Floats \ {PosZero}]} :
           S \in {T \in SUBSET P : Cardinality(T) <= MaxCells}}

BigPositions == {<<0, 0>>, <<0, 1>>, <<BigRows - 1, 0>>, <<BigRows - 1, 1>>}

Matrices ==
    UNION {MatricesOver(R, C, (0..R-1) \X (0..C-1)) : R \in 0..MaxDim, C \in 0..MaxDim}
    \cup MatricesOver(BigRows, BigCols, BigPositions)

\* mutation of nonZeros: a comparison of bit patterns in place of `!= 0`
nonZerosBitPattern(v) == Cardinality({i \in 1..Len(v) : v[i] # PosZero})

\* vector.nonZeros(): the number of elements that are not equal to 0
nonZeros(v) == Cardinality({i \in 1..Len(v) : NotEqualZero(v[i])})

\* row-major order of cell positions
RowMajorLess(p, q) == p[1] < q[1] \/ (p[1] = q[1] /\ p[2] < q[2])

RECURSIVE RowMajor(_)
RowMajor(S) ==
    IF S = {} THEN <<>>
    ELSE LET first == CHOOSE p \in S : \A q \in S \ {p} : RowMajorLess(p, q)
         IN <<first>> \o RowMajor(S \ {first})

----------------------------------------------------------------------------
(* Archives.  compressed index bytes: the deltas the stream holds and the   *)
(* size of the byte vector.  compressed value bytes: the fpzip header       *)
(* <<prec, nx>> (empty when no header was written) and the payload.         *)

NoBytes == [deltas |-> <<>>, size |-> 0]
NoValueBytes == [header |-> <<>>, payload |-> <<>>]

\* `return {}` / a value-initialised ArchivedVector
EmptyArchivedVector ==
    [is_valid |-> FALSE, nonzero |-> 0, size |-> 0,
     indexes |-> NoBytes, values |-> NoValueBytes]

EmptyArchivedMatrix ==
    [is_valid |-> FALSE, nonzero |-> 0, rows_number |-> 0, cols_number |-> 0,
     indexes |-> NoBytes, values |-> NoValueBytes]

Call(fn, ret) == [fn |-> fn, ret |-> ret]

----------------------------------------------------------------------------
(* Index codec adapter.  The stream of streamvbyte's delta coding holds, for *)
(* each index, its difference to the index before it (to 0 for the first)   *)
(* modulo 2^32; the difference is written here as its representative in     *)
(* -2^31 .. 2^31 - 1.  Every index of the model is below 2^31.              *)

STREAMVBYTE_PADDING == 16

\* data bytes of one delta: a negative representative is a value >= 2^31
DataBytes(d) ==
    IF d < 0 THEN 4
    ELSE IF d < 2^8 THEN 1 ELSE IF d < 2^16 THEN 2 ELSE IF d < 2^24 THEN 3 ELSE 4

RECURSIVE SumDataBytes(_)
SumDataBytes(ds) ==
    IF ds = <<>> THEN 0 ELSE DataBytes(Head(ds)) + SumDataBytes(Tail(ds))

\* streamvbyte_delta_encode(in, n, out, 0): the stream, and the bytes written
\* (one control byte for every four integers, then the data bytes)
streamvbyte_delta_encode(in) ==
    LET deltas == [k \in 1..Len(in) |-> in[k] - (IF k = 1 THEN 0 ELSE in[k - 1])]
    IN [deltas |-> deltas,
        written |-> ((Len(in) + 3) \div 4) + SumDataBytes(deltas)]

\* streamvbyte_delta_decode(in, out, count, 0): the running sums of the first
\* `count` deltas.  A stream that holds fewer is read past its end; what is
\* found there is `garbage`.
RECURSIVE streamvbyte_delta_decode(_, _, _)
streamvbyte_delta_decode(deltas, count, garbage) ==
    IF count = 0 THEN <<>>
    ELSE LET before == streamvbyte_delta_decode(deltas, count - 1, garbage)
             prev == IF count = 1 THEN 0 ELSE before[count - 1]
             delta == IF count <= Len(deltas) THEN deltas[count] ELSE garbage
         IN Append(before, prev + delta)

CompressIndexes(idx) ==
    LET enc == streamvbyte_delta_encode(idx)
        compressed_size == enc.written + STREAMVBYTE_PADDING
    IN [compressed |-> [deltas |-> enc.deltas, size |-> compressed_size],
        calls |-> <<Call("streamvbyte_delta_encode", enc.written)>>]

\* indexes->size() is the archive's nonzero; no result of the decoder is looked at
DecompressIndexes(compressed, count, garbage) ==
    [indexes |-> streamvbyte_delta_decode(compressed.deltas, count, garbage),
     overread |-> count > Len(compressed.deltas),
     calls |-> <<Call("streamvbyte_delta_decode", 1)>>]

----------------------------------------------------------------------------
(* Value codec adapter.  hs, ds (encode) and hdr, rd (decode) are what the  *)
(* fpzip calls report: 0, or 1 for any positive count.                      *)

CodecReports == {0, 1}

\* what fpzip keeps of a float at a precision
Truncate(x, prec) == IF prec = 0 THEN x ELSE IF x = "1.5" THEN "1.0" ELSE x

fpzip_payload(vals, prec) == [k \in 1..Len(vals) |-> Truncate(vals[k], prec)]

\* mutation of CompressValues: the result of fpzip_write_header is not looked at
CompressValuesNoHeaderCheck(vals, prec, hs, ds) ==
    LET calls4 == <<Call("fpzip_write_to_buffer", 1), Call("fpzip_write_header", hs),
                    Call("fpzip_write", ds), Call("fpzip_write_close", 1)>>
    IN IF ds = 0
       THEN [status |-> "runtime_error", compressed |-> NoValueBytes, calls |-> calls4]
       ELSE [status |-> "ok",
             compressed |-> [header |-> <<prec, Len(vals)>>,
                             payload |-> fpzip_payload(vals, prec)],
             calls |-> calls4]

CompressValues(vals, prec, hs, ds) ==
    LET N == Len(vals)
        open == <<Call("fpzip_write_to_buffer", 1)>>
        header == <<Call("fpzip_write_header", hs)>>
        write == <<Call("fpzip_write", ds)>>
        close == <<Call("fpzip_write_close", 1)>>
    IN IF hs = 0
       THEN [status |-> "runtime_error", compressed |-> NoValueBytes,
             calls |-> open \o header \o close]
       ELSE IF ds = 0
       THEN [status |-> "runtime_error", compressed |-> NoValueBytes,
             calls |-> open \o header \o write \o close]
       ELSE [status |-> "ok",
             compressed |-> [header |-> <<prec, N>>,
                             payload |-> fpzip_payload(vals, prec)],
             calls |-> open \o header \o write \o close]

\* mutation of DecompressValues: no fpzip_read_close before the throw that
\* follows a failed fpzip_read
DecompressValuesLeak(compressed, count, hdr, rd) ==
    LET open == <<Call("fpzip_read_from_buffer", 1)>>
        header == <<Call("fpzip_read_header", hdr)>>
        read == <<Call("fpzip_read", rd)>>
        close == <<Call("fpzip_read_close", 1)>>
    IN IF hdr = 0
       THEN [status |-> "runtime_error", values |-> <<>>,
             calls |-> open \o header \o close]
       ELSE IF rd = 0
       THEN [status |-> "runtime_error", values |-> <<>>,
             calls |-> open \o header \o read]
       ELSE [status |-> "ok",
             values |-> [k \in 1..count |->
                            IF k <= Len(compressed.payload)
                            THEN compressed.payload[k] ELSE PosZero],
             calls |-> open \o header \o read \o close]

\* values->size() is the archive's nonzero; the buffer starts as zeros
DecompressValues(compressed, count, hdr, rd) ==
    LET open == <<Call("fpzip_read_from_buffer", 1)>>
        header == <<Call("fpzip_read_header", hdr)>>
        read == <<Call("fpzip_read", rd)>>
        close == <<Call("fpzip_read_close", 1)>>
    IN IF hdr = 0
       THEN [status |-> "runtime_error", values |-> <<>>,
             calls |-> open \o header \o close]
       ELSE IF rd = 0
       THEN [status |-> "runtime_error", values |-> <<>>,
             calls |-> open \o header \o read \o close]
       ELSE [status |-> "ok",
             values |-> [k \in 1..count |->
                            IF k <= Len(compressed.payload)
                            THEN compressed.payload[k] ELSE PosZero],
             calls |-> open \o header \o read \o close]

----------------------------------------------------------------------------
(* Dense to sparse and back. *)

\* static_cast<uint32_t>(i * matrix.columns() + j): the 64-bit sum modulo 2^32.
\* With i = ih * 2^16 + il the sum is ((ih * c) % 2^16) * 2^16 + il * c + j
\* modulo 2^32, and that number is below 2^31 for every cell of the model.
LinearIndex(i, c, j) ==
    (((i \div TwoPow16) * c) % TwoPow16) * TwoPow16 + (i % TwoPow16) * c + j

\* mutation of IsEmptyMatrix: `&&` in place of `||`
IsEmptyMatrixBothZero(m) == m.rows = 0 /\ m.cols = 0

\* matrix.rows() == 0 || matrix.columns() == 0
IsEmptyMatrix(m) == m.rows = 0 \/ m.cols = 0

\* mutation of ScanOrder: a comparison of bit patterns in place of `!= 0`
ScanOrderBitPattern(m) ==
    RowMajor({p \in DOMAIN m.cells :
                 p[1] < m.rows /\ p[2] < m.cols /\ At(m, p[1], p[2]) # PosZero})

\* the rows are scanned in order, and each row's columns in order; the cells
\* that are left out of m.cells hold +0.0 and are skipped by the test: the
\* positions that pass `matrix(i, j) != 0`, in the order the loops reach them
ScanOrder(m) ==
    RowMajor({p \in DOMAIN m.cells :
                 p[1] < m.rows /\ p[2] < m.cols /\ NotEqualZero(At(m, p[1], p[2]))})

ConvertToCSR(m) ==
    IF IsEmptyMatrix(m)
    THEN [status |-> "invalid_argument", indexes |-> <<>>, values |-> <<>>]
    ELSE LET scan == ScanOrder(m)
         IN [status |-> "ok",
             indexes |-> [k \in 1..Len(scan) |->
                             LinearIndex(scan[k][1], m.cols, scan[k][2])],
             values |-> [k \in 1..Len(scan) |-> At(m, scan[k][1], scan[k][2])]]

\* matrix(row, col) = value on the cells kept by the model
SetCell(cells, pos, value) ==
    IF value = PosZero
    THEN [p \in DOMAIN cells \ {pos} |-> cells[p]]
    ELSE [p \in DOMAIN cells \cup {pos} |-> IF p = pos THEN value ELSE cells[p]]

\* the fill loop, elements 1..n; a write outside the matrix is not a write to it
RECURSIVE FillMatrix(_, _, _, _)
FillMatrix(idx, vals, compressed, n) ==
    IF n = 0 THEN <<>>
    ELSE LET cells == FillMatrix(idx, vals, compressed, n - 1)
             row == idx[n] \div compressed.cols_number
             col == idx[n] % compressed.cols_number
         IN IF row < compressed.rows_number
            THEN SetCell(cells, <<row, col>>, vals[n])
            ELSE cells

ConvertFromCSR(idx, vals, compressed) ==
    [rows |-> compressed.rows_number, cols |-> compressed.cols_number,
     cells |-> FillMatrix(idx, vals, compressed, Len(idx))]

\* whether the fill loop writes outside the matrix
FillOutOfBounds(idx, compressed) ==
    \E k \in 1..Len(idx) : idx[k] \div compressed.cols_number >= compressed.rows_number

----------------------------------------------------------------------------
(* The facade. *)

CompressVector(v, prec, hs, ds) ==
    IF Len(v) = 0
    THEN [status |-> "ok", returned |-> TRUE, archive |-> EmptyArchivedVector,
          indexes |-> <<>>, values |-> <<>>, calls |-> <<>>]
    ELSE IF nonZeros(v) = 0
    THEN [status |-> "ok", returned |-> TRUE, archive |-> EmptyArchivedVector,
          indexes |-> <<>>, values |-> <<>>, calls |-> <<>>]
    ELSE LET Kept(i) == NotEqualZero(v[i + 1])
             idx == SelectSeq([k \in 1..Len(v) |-> k - 1], Kept)
             vals == [k \in 1..Len(idx) |-> v[idx[k] + 1]]
             ci == CompressIndexes(idx)
             cv == CompressValues(vals, prec, hs, ds)
         IN IF cv.status # "ok"
            THEN [status |-> cv.status, returned |-> FALSE,
                  archive |-> EmptyArchivedVector,
                  indexes |-> idx, values |-> vals, calls |-> ci.calls \o cv.calls]
            ELSE [status |-> "ok", returned |-> TRUE,
                  archive |-> [is_valid |-> TRUE, nonzero |-> Len(idx),
                               size |-> Len(v), indexes |-> ci.compressed,
                               values |-> cv.compressed],
                  indexes |-> idx, values |-> vals, calls |-> ci.calls \o cv.calls]

\* mutation of FillVector: the index is used as a position counted from 1
RECURSIVE FillVectorOffByOne(_, _, _, _)
FillVectorOffByOne(idx, vals, size, n) ==
    IF n = 0 THEN [k \in 1..size |-> PosZero]
    ELSE LET vec == FillVectorOffByOne(idx, vals, size, n - 1)
         IN IF idx[n] >= 1 /\ idx[n] <= size
            THEN [vec EXCEPT ![idx[n]] = vals[n]] ELSE vec

\* the scatter loop, elements 1..n; a write outside the vector is not a write to it
RECURSIVE FillVector(_, _, _, _)
FillVector(idx, vals, size, n) ==
    IF n = 0 THEN [k \in 1..size |-> PosZero]
    ELSE LET vec == FillVector(idx, vals, size, n - 1)
         IN IF idx[n] < size THEN [vec EXCEPT ![idx[n] + 1] = vals[n]] ELSE vec

\* `crash`: whether undefined behaviour (a read past the end of the index
\* bytes, a write outside the vector) ends the process; `garbage`: what the
\* read past the end finds
DecompressVector(compressed, hdr, rd, garbage, crash) ==
    IF ~compressed.is_valid
    THEN [status |-> "ok", returned |-> TRUE, vector |-> <<>>, calls |-> <<>>]
    ELSE LET di == DecompressIndexes(compressed.indexes, compressed.nonzero, garbage)
             dv == DecompressValues(compressed.values, compressed.nonzero, hdr, rd)
             outside == \E k \in 1..compressed.nonzero :
                            di.indexes[k] >= compressed.size
         IN IF di.overread /\ crash
            THEN [status |-> "crash", returned |-> FALSE, vector |-> <<>>,
                  calls |-> di.calls]
            ELSE IF dv.status # "ok"
            THEN [status |-> dv.status, returned |-> FALSE, vector |-> <<>>,
                  calls |-> di.calls \o dv.calls]
            ELSE IF outside /\ crash
            THEN [status |-> "crash", returned |-> FALSE, vector |-> <<>>,
                  calls |-> di.calls \o dv.calls]
            ELSE [status |-> "ok", returned |-> TRUE,
                  vector |-> FillVector(di.indexes, dv.values, compressed.size,
                                        compressed.nonzero),
                  calls |-> di.calls \o dv.calls]

CompressMatrix(m, prec, hs, ds) ==
    LET csr == ConvertToCSR(m)
    IN IF csr.status # "ok"
       THEN [status |-> csr.status, returned |-> FALSE,
             archive |-> EmptyArchivedMatrix,
             indexes |-> <<>>, values |-> <<>>, calls |-> <<>>]
       ELSE LET ci == CompressIndexes(csr.indexes)
                cv == CompressValues(csr.values, prec, hs, ds)
            IN IF cv.status # "ok"
               THEN [status |-> cv.status, returned |-> FALSE,
                     archive |-> EmptyArchivedMatrix,
                     indexes |-> csr.indexes, values |-> csr.values,
                     calls |-> ci.calls \o cv.calls]
               ELSE [status |-> "ok", returned |-> TRUE,
                     archive |-> [is_valid |-> TRUE, nonzero |-> Len(csr.values),
                                  rows_number |-> m.rows, cols_number |-> m.cols,
                                  indexes |-> ci.compressed,
                                  values |-> cv.compressed],
                     indexes |-> csr.indexes, values |-> csr.values,
                     calls |-> ci.calls \o cv.calls]

\* mutation of DecompressMatrix: an invalid archive is answered as
\* Decompress(ArchivedVector) answers it, with an empty result
DecompressMatrixLenient(compressed, hdr, rd, garbage, crash) ==
    IF ~compressed.is_valid
    THEN [status |-> "ok", returned |-> TRUE, matrix |-> NoMatrix, calls |-> <<>>]
    ELSE LET di == DecompressIndexes(compressed.indexes, compressed.nonzero, garbage)
             dv == DecompressValues(compressed.values, compressed.nonzero, hdr, rd)
         IN IF dv.status # "ok"
            THEN [status |-> dv.status, returned |-> FALSE, matrix |-> NoMatrix,
                  calls |-> di.calls \o dv.calls]
            ELSE [status |-> "ok", returned |-> TRUE,
                  matrix |-> ConvertFromCSR(di.indexes, dv.values, compressed),
                  calls |-> di.calls \o dv.calls]

DecompressMatrix(compressed, hdr, rd, garbage, crash) ==
    IF ~compressed.is_valid
    THEN [status |-> "invalid_argument", returned |-> FALSE, matrix |-> NoMatrix,
          calls |-> <<>>]
    ELSE LET di == DecompressIndexes(compressed.indexes, compressed.nonzero, garbage)
             dv == DecompressValues(compressed.values, compressed.nonzero, hdr, rd)
         IN IF di.overread /\ crash
            THEN [status |-> "crash", returned |-> FALSE, matrix |-> NoMatrix,
                  calls |-> di.calls]
            ELSE IF dv.status # "ok"
            THEN [status |-> dv.status, returned |-> FALSE, matrix |-> NoMatrix,
                  calls |-> di.calls \o dv.calls]
            ELSE IF FillOutOfBounds(di.indexes, compressed) /\ crash
            THEN [status |-> "crash", returned |-> FALSE, matrix |-> NoMatrix,
                  calls |-> di.calls \o dv.calls]
            ELSE [status |-> "ok", returned |-> TRUE,
                  matrix |-> ConvertFromCSR(di.indexes, dv.values, compressed),
                  calls |-> di.calls \o dv.calls]

----------------------------------------------------------------------------
(* The state machine: one Compress call, then Decompress calls of the       *)
(* archive it returned, as it is or changed by the caller.  The calls share *)
(* no state, so longer call sequences reach no other results.               *)

\* an archive is a plain record its holder can change: is_valid cleared, or
\* the index bytes emptied
Tampers == {"none", "invalid", "no_indexes"}

Tampered(archive, t) ==
    CASE t = "none" -> archive
      [] t = "invalid" -> [archive EXCEPT !.is_valid = FALSE]
      [] t = "no_indexes" -> [archive EXCEPT !.indexes = NoBytes]

Garbage == {0, 1}

Init ==
    /\ op = "none"
    /\ vector = <<>>
    /\ matrix = NoMatrix
    /\ precision = 0
    /\ tamper = "none"
    /\ archV = EmptyArchivedVector
    /\ archM = EmptyArchivedMatrix
    /\ indexes = <<>>
    /\ values = <<>>
    /\ status = "ok"
    /\ returned = FALSE
    /\ vout = <<>>
    /\ mout = NoMatrix
    /\ calls = <<>>

DoCompressVector ==
    /\ op = "none"
    /\ \E v \in Vectors, prec \in Precisions, hs \in CodecReports, ds \in CodecReports :
        LET r == CompressVector(v, prec, hs, ds)
        IN /\ op' = "CompressVector"
           /\ vector' = v
           /\ precision' = prec
           /\ archV' = r.archive
           /\ indexes' = r.indexes
           /\ values' = r.values
           /\ status' = r.status
           /\ returned' = r.returned
           /\ calls' = r.calls
           /\ tamper' = "none"
           /\ matrix' = NoMatrix
           /\ archM' = EmptyArchivedMatrix
           /\ vout' = <<>>
           /\ mout' = NoMatrix

DoDecompressVector ==
    /\ op = "CompressVector"
    /\ returned
    /\ \E t \in Tampers, hdr \in CodecReports, rd \in CodecReports,
          garbage \in Garbage, crash \in BOOLEAN :
        LET a == Tampered(archV, t)
            r == DecompressVector(a, hdr, rd, garbage, crash)
        IN /\ op' = "DecompressVector"
           /\ tamper' = t
           /\ archV' = a
           /\ status' = r.status
           /\ returned' = r.returned
           /\ vout' = r.vector
           /\ calls' = r.calls
           /\ UNCHANGED <<vector, matrix, precision, archM, indexes, values, mout>>

DoCompressMatrix ==
    /\ op = "none"
    /\ \E m \in Matrices, prec \in Precisions, hs \in CodecReports, ds \in CodecReports :
        LET r == CompressMatrix(m, prec, hs, ds)
        IN /\ op' = "CompressMatrix"
           /\ matrix' = m
           /\ precision' = prec
           /\ archM' = r.archive
           /\ indexes' = r.indexes
           /\ values' = r.values
           /\ status' = r.status
           /\ returned' = r.returned
           /\ calls' = r.calls
           /\ tamper' = "none"
           /\ vector' = <<>>
           /\ archV' = EmptyArchivedVector
           /\ vout' = <<>>
           /\ mout' = NoMatrix

DoDecompressMatrix ==
    /\ op = "CompressMatrix"
    /\ returned
    /\ \E t \in Tampers, hdr \in CodecReports, rd \in CodecReports,
          garbage \in Garbage, crash \in BOOLEAN :
        LET a == Tampered(archM, t)
            r == DecompressMatrix(a, hdr, rd, garbage, crash)
        IN /\ op' = "DecompressMatrix"
           /\ tamper' = t
           /\ archM' = a
           /\ status' = r.status
           /\ returned' = r.returned
           /\ mout' = r.matrix
           /\ calls' = r.calls
           /\ UNCHANGED <<vector, matrix, precision, archV, indexes, values, vout>>

Next ==
    \/ DoCompressVector
    \/ DoDecompressVector
    \/ DoCompressMatrix
    \/ DoDecompressMatrix

Spec == Init /\ [][Next]_vars

----------------------------------------------------------------------------
(* Vocabulary of the properties, stated on the state alone. *)

IsZeroValue(x) == x = "+0.0" \/ x = "-0.0"

\* the number of elements of a dense vector that are not equal to 0
CountNonZero(v) == Cardinality({i \in 1..Len(v) : ~IsZeroValue(v[i])})

\* the positions of a dense matrix whose elements are not equal to 0
NonZeroCells(m) == {p \in DOMAIN m.cells : ~IsZeroValue(m.cells[p])}

\* the element at a position of a dense matrix
Cell(m, p) == IF p \in DOMAIN m.cells THEN m.cells[p] ELSE "+0.0"

\* a float as it comes back from a lossless trip through the sparse form
ZeroCleared(x) == IF x = "-0.0" THEN "+0.0" ELSE x

StrictlyIncreasing(s) == \A k \in 1..(Len(s) - 1) : s[k] < s[k + 1]

FpzipSteps == {"fpzip_write_header", "fpzip_write", "fpzip_read_header", "fpzip_read"}
FpzipOpens == {"fpzip_write_to_buffer", "fpzip_read_from_buffer"}
FpzipCloses == {"fpzip_write_close", "fpzip_read_close"}

IsFpzipCall(c) == c.fn \in FpzipSteps \cup FpzipOpens \cup FpzipCloses

\* the positions in `calls` of the value codec calls that reported zero bytes
FailedSteps == {k \in 1..Len(calls) : calls[k].fn \in FpzipSteps /\ calls[k].ret = 0}

Compressing == op \in {"CompressVector", "CompressMatrix"}
Decompressing == op \in {"DecompressVector", "DecompressMatrix"}

\* a round trip at lossless precision in which no codec reported a failure
LosslessTrip(o) ==
    op = o /\ tamper = "none" /\ precision = 0 /\ status = "ok"

\* nothing came back from the call
NothingReturned ==
    /\ ~returned
    /\ op = "CompressVector" => archV = EmptyArchivedVector
    /\ op = "CompressMatrix" => archM = EmptyArchivedMatrix
    /\ op = "DecompressVector" => vout = <<>>
    /\ op = "DecompressMatrix" => mout = NoMatrix

----------------------------------------------------------------------------
(* C1.  Vector lossless round trip. *)

----------------------------------------------------------------------------
(* C2.  Matrix lossless round trip. *)

\* C2: after Decompress(Compress(M, lossless)) with no codec failure the result
\* has M's dimensions and equals M in every cell (+0.0 and -0.0 are equal).
C2_RoundTripAnyMatrix ==
    LosslessTrip("DecompressMatrix") =>
        /\ mout.rows = matrix.rows
        /\ mout.cols = matrix.cols
        /\ \A p \in DOMAIN matrix.cells \cup DOMAIN mout.cells :
              Cell(mout, p) = ZeroCleared(Cell(matrix, p))

----------------------------------------------------------------------------
(* C3.  Asymmetric handling of invalid archives. *)

\* C3: Decompress of an ArchivedVector with is_valid = false returns the
\* zero-length vector and calls no codec; Decompress of an ArchivedMatrix with
\* is_valid = false fails with invalid_argument and returns nothing.
C3_InvalidArchive ==
    /\ (op = "DecompressVector" /\ ~archV.is_valid) =>
           status = "ok" /\ returned /\ vout = <<>> /\ calls = <<>>
    /\ (op = "DecompressMatrix" /\ ~archM.is_valid) =>
           status = "invalid_argument" /\ NothingReturned /\ calls = <<>>

C3_Witness ==
    /\ op = "DecompressMatrix"
    /\ ~archM.is_valid
    /\ archM.nonzero = 2 /\ archM.rows_number = 2
    /\ status = "invalid_argument"

----------------------------------------------------------------------------
(* C4.  The empty-vector sentinel. *)

\* C4: Compress of a zero-length or all-zero vector returns, at every
\* precision and without calling a codec, the archive with is_valid = false
\* and every other field empty; Decompress of it returns the zero-length vector.
C4_EmptyVectorSentinel ==
    /\ (op = "CompressVector" /\ CountNonZero(vector) = 0) =>
           /\ status = "ok" /\ returned /\ calls = <<>>
           /\ archV = [is_valid |-> FALSE, nonzero |-> 0, size |-> 0,
                       indexes |-> NoBytes, values |-> NoValueBytes]
    /\ (op = "DecompressVector" /\ tamper = "none" /\ CountNonZero(vector) = 0) =>
           status = "ok" /\ returned /\ vout = <<>> /\ calls = <<>>

C4_Witness ==
    /\ op = "DecompressVector" /\ tamper = "none"
    /\ vector = <<"-0.0", "+0.0">>
    /\ precision = 16
    /\ vout = <<>>

----------------------------------------------------------------------------
(* C5.  Zero-dimension rejection. *)

\* C5: Compress of a matrix with 0 rows or 0 columns fails with
\* invalid_argument before any codec call; of any other matrix it returns,
\* unless a codec call fails, a valid archive with the matrix's dimensions.
C5_ZeroDimension ==
    op = "CompressMatrix" =>
        IF matrix.rows = 0 \/ matrix.cols = 0
        THEN status = "invalid_argument" /\ NothingReturned /\ calls = <<>>
        ELSE /\ status = "ok" <=> FailedSteps = {}
             /\ status = "ok" =>
                   /\ returned
                   /\ archM.is_valid
                   /\ archM.rows_number = matrix.rows
                   /\ archM.cols_number = matrix.cols

C5_Witness ==
    /\ op = "CompressMatrix"
    /\ matrix.rows = 2 /\ matrix.cols = 1
    /\ NonZeroCells(matrix) = {}
    /\ status = "ok" /\ archM.is_valid

----------------------------------------------------------------------------
(* C6.  Nonzero count fidelity. *)

----------------------------------------------------------------------------
(* C7.  Index codec failure. *)

\* C7: a Decompress whose index bytes cannot fill the nonzero indexes asked for
\* fails with the codec error (runtime_error) and returns nothing.
C7_IndexCodecFailure ==
    /\ (op = "DecompressVector" /\ archV.is_valid
        /\ Len(archV.indexes.deltas) < archV.nonzero) =>
           status = "runtime_error" /\ NothingReturned
    /\ (op = "DecompressMatrix" /\ archM.is_valid
        /\ Len(archM.indexes.deltas) < archM.nonzero) =>
           status = "runtime_error" /\ NothingReturned

----------------------------------------------------------------------------
(* C8.  Value codec failure is fail-fast. *)

\* a value codec call that reports zero bytes is followed by the close call
\* alone, the operation ends with runtime_error and nothing is returned
FailFast(k) ==
    /\ status = "runtime_error"
    /\ NothingReturned
    /\ Len(calls) = k + 1
    /\ calls[k + 1].fn \in FpzipCloses
    /\ FailedSteps = {k}

\* C8 as stated: a zero report while a nonempty value sequence is encoded, or
\* while values are decoded, fails the call at that step; runtime_error is
\* raised in those cases only.
C8_ValueCodecFailFastNonempty ==
    /\ \A k \in FailedSteps : (Decompressing \/ values # <<>>) => FailFast(k)
    /\ status = "runtime_error" =>
           \E k \in FailedSteps : Decompressing \/ values # <<>>

\* C8 amended: a zero report of the value codec fails the call at that step
\* whether or not the value sequence is empty; runtime_error is raised in
\* those cases only.
C8_ValueCodecFailFast ==
    /\ \A k \in FailedSteps : FailFast(k)
    /\ status = "runtime_error" => FailedSteps # {}

C8_Witness ==
    /\ op = "CompressMatrix"
    /\ values = <<>>
    /\ status = "runtime_error"
    /\ \E k \in FailedSteps : calls[k].fn = "fpzip_write_header"

----------------------------------------------------------------------------
(* C9.  The index stream. *)

\* C9: the index sequence of an accepted Compress is strictly increasing, and
\* its k-th index is the linear offset of the k-th nonzero element in row-major
\* order: index \div cols is the element's row, index % cols its column (for a
\* vector the index is the element's position).
C9_IndexStream ==
    /\ (op = "CompressVector" /\ status = "ok") =>
           /\ StrictlyIncreasing(indexes)
           /\ \A k \in 1..Len(indexes) :
                 indexes[k] < Len(vector) /\ values[k] = vector[indexes[k] + 1]
    /\ (op = "CompressMatrix" /\ status = "ok") =>
           LET cells == RowMajor(NonZeroCells(matrix))
           IN /\ StrictlyIncreasing(indexes)
              /\ Len(indexes) = Len(cells)
              /\ \A k \in 1..Len(indexes) :
                    /\ indexes[k] \div matrix.cols = cells[k][1]
                    /\ indexes[k] % matrix.cols = cells[k][2]

----------------------------------------------------------------------------
(* C10.  Release of the codec stream handle. *)

\* C10: in every operation the value codec's handle, once opened, is closed
\* exactly once, as the last call on it, on the success path and on each
\* failure path; every other call on it lies between the open and the close.
C10_HandleRelease ==
    LET f == SelectSeq(calls, IsFpzipCall)
    IN f # <<>> =>
          /\ f[1].fn \in FpzipOpens
          /\ f[Len(f)].fn \in FpzipCloses
          /\ \A k \in 2..(Len(f) - 1) : f[k].fn \in FpzipSteps
          /\ f[1].fn = "fpzip_write_to_buffer" <=> f[Len(f)].fn = "fpzip_write_close"

C10_Witness ==
    /\ op = "DecompressVector"
    /\ status = "runtime_error"
    /\ \E k \in FailedSteps : calls[k].fn = "fpzip_read"
    /\ calls[Len(calls)].fn = "fpzip_read_close"

====
